---- MODULE Spec2Model ----
(***************************************************************************)
(* PagerMon reader.js: the line handler (classification, POCSAG / FLEX /  *)
(* EAS decoding, FLEX fragment reassembly, the filter) and sendPage (the  *)
(* retrying delivery), as a state machine.                                *)
(*                                                                         *)
(* A JavaScript string is a sequence of one-character strings; the values *)
(* false and undefined are the one-element sequences JsFalse, Undefined,  *)
(* which no string of characters equals. Regular expressions are          *)
(* sequences of atoms matched by a backtracking matcher that tries the    *)
(* alternatives in the order JavaScript does.                             *)
(***************************************************************************)
EXTENDS Integers, Sequences, FiniteSets, TLC

VARIABLES cfg, frag, hist, msgs

vars == <<cfg, frag, hist, msgs>>

-----------------------------------------------------------------------------
(* JavaScript values *)

JsFalse == <<"false">>
Undefined == <<"undefined">>
JsNull == <<"null">>

\* ToBoolean: false, undefined, null and '' are falsy, every other value truthy.
Truthy(v) == v \notin {JsFalse, Undefined, JsNull, <<>>}

\* a || b
OrElse(a, b) == IF Truthy(a) THEN a ELSE b

\* const x = v; ...: the value v, computed once, as x in F
Let(v, F(_)) == CHOOSE r \in {F(x) : x \in {v}} : TRUE

Digit == {"0", "1", "2", "3", "4", "5", "6", "7", "8", "9"}
Upper == {"A", "B", "C", "D", "E", "F", "G", "H", "I", "J", "K", "L", "M",
          "N", "O", "P", "Q", "R", "S", "T", "U", "V", "W", "X", "Y", "Z"}
Lower == {"a", "b", "c", "d", "e", "f", "g", "h", "i", "j", "k", "l", "m",
          "n", "o", "p", "q", "r", "s", "t", "u", "v", "w", "x", "y", "z"}
Letter == Upper \cup Lower
\* \w
WordChar == Letter \cup Digit \cup {"_"}
WhiteSpace == {" ", "\t"}
Punct == {":", "|", "[", "]", "/", "-", ".", "<", ">", "+", ",", "_"}
\* . (a line holds no line terminator)
AnyChar == WordChar \cup WhiteSpace \cup Punct \cup {"Ä", "Ü"}

-----------------------------------------------------------------------------
(* String.prototype helpers *)

Min(a, b) == IF a < b THEN a ELSE b

\* String.prototype.trim: s without its leading and trailing white space
Trim(s) ==
    Let({i \in 1..Len(s) : s[i] \notin WhiteSpace}, LAMBDA inner :
        IF inner = {} THEN <<>>
        ELSE SubSeq(s, CHOOSE i \in inner : \A j \in inner : i <= j,
                    CHOOSE i \in inner : \A j \in inner : i >= j))

\* Whether sub occurs in s at position p.
OccursAt(s, sub, p) ==
    /\ p + Len(sub) - 1 <= Len(s)
    /\ SubSeq(s, p, p + Len(sub) - 1) = sub

\* String.prototype.includes
Includes(s, sub) == \E p \in 1..(Len(s) + 1) : OccursAt(s, sub, p)

\* String.prototype.replace with a string pattern: the first occurrence only.
ReplaceFirst(s, sub, rep) ==
    Let({p \in 1..(Len(s) + 1) : OccursAt(s, sub, p)}, LAMBDA at :
        IF at = {} THEN s
        ELSE Let(CHOOSE p \in at : \A q \in at : p <= q, LAMBDA p :
                 SubSeq(s, 1, p - 1) \o rep \o SubSeq(s, p + Len(sub), Len(s))))

\* String.prototype.replace(/c/g, rep) for a one-character pattern.
ReplaceChar(s, c, rep) == [i \in 1..Len(s) |-> IF s[i] = c THEN rep ELSE s[i]]

-----------------------------------------------------------------------------
(* Regular expressions: a sequence of atoms [cs, q], cs the characters the  *)
(* atom matches and q its quantifier: "1", "?", "*", "+" (greedy), "*?"     *)
(* (lazy), or "$" (the end of the input).                                   *)

Fail == <<-1>>

One(cs) == <<[cs |-> cs, q |-> "1"]>>
Opt(cs) == <<[cs |-> cs, q |-> "?"]>>
Star(cs) == <<[cs |-> cs, q |-> "*"]>>
Plus(cs) == <<[cs |-> cs, q |-> "+"]>>
Lazy(cs) == <<[cs |-> cs, q |-> "*?"]>>
EndOfInput == <<[cs |-> {}, q |-> "$"]>>
Lit(str) == [i \in 1..Len(str) |-> [cs |-> {str[i]}, q |-> "1"]]

\* The number of consecutive characters of s from position p that are in cs.
Run(cs, s, p) ==
    CHOOSE n \in 0..(Len(s) + 1 - p) :
        /\ \A i \in p..(p + n - 1) : s[i] \in cs
        /\ p + n > Len(s) \/ s[p + n] \notin cs

\* The first of the tries <<lengths, lengths of the rest>> that did not fail,
\* the fewest characters first for a lazy atom and the most for a greedy one.
FirstTry(tries, q) ==
    Let({t \in tries : t[2] # Fail}, LAMBDA ok :
        IF ok = {} THEN Fail
        ELSE Let(IF q = "*?"
                 THEN CHOOSE t \in ok : \A u \in ok : t[1][1] <= u[1][1]
                 ELSE CHOOSE t \in ok : \A u \in ok : t[1][1] >= u[1][1],
                 LAMBDA first : first[1] \o first[2]))

\* The numbers of characters atom a may take at position p of s.
Counts(a, s, p) ==
    Let(Run(a.cs, s, p), LAMBDA n :
        (IF a.q = "+" THEN 1 ELSE 0)..(IF a.q = "?" THEN Min(1, n) ELSE n))

\* The last of the atoms from k on that each match one character.
BlockEnd(re, k) ==
    CHOOSE j \in k..Len(re) :
        /\ \A i \in k..j : re[i].q = "1"
        /\ j = Len(re) \/ re[j + 1].q # "1"

\* Whether atoms k..j, one character each, match s at position p.
BlockMatches(re, k, j, s, p) ==
    /\ p + (j - k) <= Len(s)
    /\ \A i \in k..j : s[p + (i - k)] \in re[i].cs

\* The lengths matched by atoms k.. of re at position p of s, the first in
\* backtracking order, or Fail. A run of one-character atoms is matched as a
\* block, a quantified atom by trying each number of characters it may take.
RECURSIVE MatchFrom(_, _, _, _)
MatchFrom(re, k, s, p) ==
    IF k > Len(re) THEN <<>>
    ELSE IF re[k].q = "$"
    THEN IF p = Len(s) + 1
         THEN FirstTry({<<<<0>>, MatchFrom(re, k + 1, s, p)>>}, "$")
         ELSE Fail
    ELSE IF re[k].q = "1"
    THEN Let(BlockEnd(re, k), LAMBDA j :
             IF BlockMatches(re, k, j, s, p)
             THEN FirstTry({<<[i \in 1..(j - k + 1) |-> 1],
                              MatchFrom(re, j + 1, s, p + (j - k + 1))>>}, "1")
             ELSE Fail)
    ELSE FirstTry({<<<<c>>, MatchFrom(re, k + 1, s, p + c)>> : c \in Counts(re[k], s, p)},
                  re[k].q)

\* RegExp.prototype.test
Test(re, s) == \E p \in 1..(Len(s) + 1) : MatchFrom(re, 1, s, p) # Fail

NoMatch == [found |-> FALSE, start |-> 0, lens |-> <<>>]

\* String.prototype.match without the g flag: the leftmost match, or null.
Match(re, s) ==
    Let({p \in 1..(Len(s) + 1) : MatchFrom(re, 1, s, p) # Fail}, LAMBDA starts :
        IF starts = {} THEN NoMatch
        ELSE Let(CHOOSE p \in starts : \A q \in starts : p <= q, LAMBDA p :
                 [found |-> TRUE, start |-> p, lens |-> MatchFrom(re, 1, s, p)]))

RECURSIVE SumTo(_, _)
SumTo(lens, k) == IF k = 0 THEN 0 ELSE lens[k] + SumTo(lens, k - 1)

\* The text atoms k1..k2 of the match m matched.
Span(m, s, k1, k2) ==
    SubSeq(s, m.start + SumTo(m.lens, k1 - 1), m.start + SumTo(m.lens, k2) - 1)

\* The text atom k of the match m captured (a group is one quantified atom).
Group(m, s, k) == Span(m, s, k, k)

\* match[0]
Whole(m, s) == SubSeq(s, m.start, m.start + SumTo(m.lens, Len(m.lens)) - 1)

\* String.prototype.replace(re, '') with the g flag: every match, left to right.
RECURSIVE RemoveAll(_, _)
RemoveAll(re, s) ==
    Let(Match(re, s), LAMBDA m :
        IF ~m.found \/ Whole(m, s) = <<>> THEN s
        ELSE SubSeq(s, 1, m.start - 1)
                 \o RemoveAll(re, SubSeq(s, m.start + Len(Whole(m, s)), Len(s))))

-----------------------------------------------------------------------------
(* The patterns of reader.js *)

S_POCSAG == <<"P", "O", "C", "S", "A", "G">>
S_ADDRESS == <<":", " ", "A", "d", "d", "r", "e", "s", "s", ":">>
S_FUNCTION == <<"F", "u", "n", "c", "t", "i", "o", "n">>
S_ALPHA == <<"A", "l", "p", "h", "a", ":">>
S_NUMERIC == <<"N", "u", "m", "e", "r", "i", "c", ":">>
S_FLEX == <<"F", "L", "E", "X">>
S_UNDEFINED == <<"u", "n", "d", "e", "f", "i", "n", "e", "d">>

\* /POCSAG(\d+): Address: /
POCSAG_TEST_REGEX == Lit(S_POCSAG) \o Plus(Digit) \o Lit(S_ADDRESS) \o Lit(<<" ">>)

\* /POCSAG(\d+): Address:(.*?)Function/, and the atom that is its group 2
POCSAG_ADDRESS_PREFIX == Lit(S_POCSAG) \o Plus(Digit) \o Lit(S_ADDRESS)
POCSAG_ADDRESS_REGEX == POCSAG_ADDRESS_PREFIX \o Lazy(AnyChar) \o Lit(S_FUNCTION)
POCSAG_ADDRESS_GROUP == Len(POCSAG_ADDRESS_PREFIX) + 1

\* /POCSAG(\d+): Address:(.*?)Function: (\d)/, and the atom that is its group 3
POCSAG_FUNCTION_REGEX == POCSAG_ADDRESS_REGEX \o Lit(<<":", " ">>) \o One(Digit)
POCSAG_FUNCTION_GROUP == Len(POCSAG_FUNCTION_REGEX)

\* /FLEX[:|] ?.*?[\[|](\d*?)[\]| ]/, and the atom that is its group 1
FLEX_PREFIX == Lit(S_FLEX) \o One({":", "|"})
FLEX_ADDRESS_REGEX ==
    FLEX_PREFIX \o Opt({" "}) \o Lazy(AnyChar) \o One({"[", "|"})
        \o Lazy(Digit) \o One({"]", "|", " "})
FLEX_ADDRESS_GROUP == Len(FLEX_ADDRESS_REGEX) - 1

\* /FLEX[:|].*[|\[][0-9 ]*[|\]] ?...[ |](.+)/, and the atom that is its group 1
FLEX_MESSAGE_REGEX ==
    FLEX_PREFIX \o Star(AnyChar) \o One({"|", "["}) \o Star(Digit \cup {" "})
        \o One({"|", "]"}) \o Opt({" "}) \o One(AnyChar) \o One(AnyChar)
        \o One(AnyChar) \o One({" ", "|"}) \o Plus(AnyChar)
FLEX_MESSAGE_GROUP == Len(FLEX_MESSAGE_REGEX)

\* /([ |]ALN[ |]|[ |]GPN[ |]|[ |]NUM[ |])/: its three alternatives
Marker(str) == One({" ", "|"}) \o Lit(str) \o One({" ", "|"})
ALN_GPN_NUM_REGEX ==
    {Marker(<<"A", "L", "N">>), Marker(<<"G", "P", "N">>), Marker(<<"N", "U", "M">>)}

\* /(EAS[:|]|ZCZC-)/: its two alternatives
EAS_REGEX ==
    {Lit(<<"E", "A", "S">>) \o One({":", "|"}), Lit(<<"Z", "C", "Z", "C", "-">>)}

\* A pattern with top-level alternatives tests true when one of them does.
TestAny(res, s) == \E re \in res : Test(re, s)

\* /Alpha:(.*?)$/ and /Numeric:(.*?)$/; the group is the atom after the marker
ALPHA_REGEX == Lit(S_ALPHA) \o Lazy(AnyChar) \o EndOfInput
NUMERIC_REGEX == Lit(S_NUMERIC) \o Lazy(AnyChar) \o EndOfInput

\* \d{2}:\d{2}:\d{2}
D2 == One(Digit) \o One(Digit)
D4 == D2 \o D2
CLOCK_REGEX == D2 \o Lit(<<":">>) \o D2 \o Lit(<<":">>) \o D2

\* /\d{2} \w+ \d{4} \d{2}:\d{2}:\d{2}/
LONG_DATE_REGEX ==
    D2 \o Lit(<<" ">>) \o Plus(WordChar) \o Lit(<<" ">>) \o D4 \o Lit(<<" ">>)
        \o CLOCK_REGEX

\* /\d+-\d+-\d+ \d{2}:\d{2}:\d{2}/ (the FLEX branch)
ISO_DATE_REGEX ==
    Plus(Digit) \o Lit(<<"-">>) \o Plus(Digit) \o Lit(<<"-">>) \o Plus(Digit)
        \o Lit(<<" ">>) \o CLOCK_REGEX

\* /\d+-\d+-\d+ \d{2}:\d+:\d{2}/ (the POCSAG branch: any number of minute digits)
ISO_DATE_LOOSE_REGEX ==
    Plus(Digit) \o Lit(<<"-">>) \o Plus(Digit) \o Lit(<<"-">>) \o Plus(Digit)
        \o Lit(<<" ">>) \o D2 \o Lit(<<":">>) \o Plus(Digit) \o Lit(<<":">>) \o D2

\* /FLEX[:|] ?/
FLEX_TS_PREFIX == FLEX_PREFIX \o Opt({" "})

\* /[ |][0-9]{4}\/[0-9]\/X\/.[ |]/ for X = F, C, K
FragCode(x) ==
    One({" ", "|"}) \o D4 \o Lit(<<"/">>) \o One(Digit) \o Lit(<<"/", x, "/">>)
        \o One(AnyChar) \o One({" ", "|"})

\* /<[A-Za-z]{3}>/
CONTROL_TOKEN_REGEX ==
    Lit(<<"<">>) \o One(Letter) \o One(Letter) \o One(Letter) \o Lit(<<">">>)

\* message.replace(/<[A-Za-z]{3}>/g, '').replace(/Ä/g, '[').replace(/Ü/g, ']')
Clean(message) ==
    ReplaceChar(ReplaceChar(RemoveAll(CONTROL_TOKEN_REGEX, message), "Ä", "["),
                "Ü", "]")

-----------------------------------------------------------------------------
(* moment(timeString, ['DD MMMM YYYY HH:mm:ss', 'YYYY-MM-DD HH:mm:ss']):     *)
(* the fields of the two accepted shapes, the validity of the date they     *)
(* name, and its Unix time (the local time zone taken to be UTC).           *)

DigitValue(c) == CHOOSE n \in 0..9 : <<"0", "1", "2", "3", "4", "5", "6", "7", "8", "9">>[n + 1] = c

RECURSIVE ToInt(_)
ToInt(ds) ==
    IF ds = <<>> THEN 0
    ELSE 10 * ToInt(SubSeq(ds, 1, Len(ds) - 1)) + DigitValue(ds[Len(ds)])

MonthNames ==
    <<<<"J", "a", "n", "u", "a", "r", "y">>, <<"F", "e", "b", "r", "u", "a", "r", "y">>,
      <<"M", "a", "r", "c", "h">>, <<"A", "p", "r", "i", "l">>, <<"M", "a", "y">>,
      <<"J", "u", "n", "e">>, <<"J", "u", "l", "y">>, <<"A", "u", "g", "u", "s", "t">>,
      <<"S", "e", "p", "t", "e", "m", "b", "e", "r">>,
      <<"O", "c", "t", "o", "b", "e", "r">>, <<"N", "o", "v", "e", "m", "b", "e", "r">>,
      <<"D", "e", "c", "e", "m", "b", "e", "r">>>>

MonthOf(name) ==
    IF \E m \in 1..12 : MonthNames[m] = name
    THEN CHOOSE m \in 1..12 : MonthNames[m] = name
    ELSE 0

IsLeap(y) == (y % 4 = 0 /\ y % 100 # 0) \/ y % 400 = 0

DaysInMonth(y, m) ==
    IF m = 2 THEN (IF IsLeap(y) THEN 29 ELSE 28)
    ELSE IF m \in {4, 6, 9, 11} THEN 30 ELSE 31

\* The leap years before year y.
LeapsBefore(y) == (y - 1) \div 4 - (y - 1) \div 100 + (y - 1) \div 400

\* The days from 1970-01-01 to the first day of year y.
DaysBeforeYear(y) == 365 * (y - 1970) + LeapsBefore(y) - LeapsBefore(1970)

RECURSIVE DaysBeforeMonth(_, _)
DaysBeforeMonth(y, m) ==
    IF m <= 1 THEN 0 ELSE DaysBeforeMonth(y, m - 1) + DaysInMonth(y, m - 1)

\* The fields [y, mo, d, h, mi, s] of a time string of either shape.
LongFields(m, ts) ==
    [y |-> ToInt(Span(m, ts, 6, 9)), mo |-> MonthOf(Span(m, ts, 4, 4)),
     d |-> ToInt(Span(m, ts, 1, 2)), h |-> ToInt(Span(m, ts, 11, 12)),
     mi |-> ToInt(Span(m, ts, 14, 15)), s |-> ToInt(Span(m, ts, 17, 18))]

IsoFields(m, ts) ==
    [y |-> ToInt(Span(m, ts, 1, 1)), mo |-> ToInt(Span(m, ts, 3, 3)),
     d |-> ToInt(Span(m, ts, 5, 5)), h |-> ToInt(Span(m, ts, 7, 8)),
     mi |-> ToInt(Span(m, ts, 10, 10)), s |-> ToInt(Span(m, ts, 12, 13))]

DateFields(ts) ==
    Let(Match(LONG_DATE_REGEX, ts), LAMBDA long :
        IF long.found THEN LongFields(long, ts)
        ELSE Let(Match(ISO_DATE_LOOSE_REGEX, ts), LAMBDA iso : IsoFields(iso, ts)))

\* Whether the fields name a date and a time of day.
ValidFields(f) ==
    /\ f.y \in 1970..2037
    /\ f.mo \in 1..12
    /\ f.d \in 1..DaysInMonth(f.y, f.mo)
    /\ f.h \in 0..23 /\ f.mi \in 0..59 /\ f.s \in 0..59

\* The Unix time the fields name.
UnixOf(f) ==
    (DaysBeforeYear(f.y) + DaysBeforeMonth(f.y, f.mo) + f.d - 1) * 86400
        + f.h * 3600 + f.mi * 60 + f.s

\* moment(...).isValid() and moment(...).unix(): [stamped, unix]
Moment(ts) ==
    Let(DateFields(ts), LAMBDA f :
        IF ValidFields(f) THEN [stamped |-> TRUE, unix |-> UnixOf(f)]
        ELSE [stamped |-> FALSE, unix |-> 0])

NoTime == [stamped |-> FALSE, unix |-> 0]

-----------------------------------------------------------------------------
(* Configuration (nconf) and the fragmentation storage *)

\* const sendFunctionCode = nconf.get('sendFunctionCode') || false
sendFunctionCode(c) == c.sendFunctionCode \/ FALSE

\* const useTimestamp = nconf.get('useTimestamp') || true
useTimestamp(c) == c.useTimestamp \/ TRUE

\* const identifier = nconf.get('identifier')
identifier == <<"r", "x", "1">>

\* frag[address]
FragGet(fr, address) == IF address \in DOMAIN fr THEN fr[address] ELSE Undefined

\* frag[address] = message
FragSet(fr, address, message) ==
    [a \in DOMAIN fr \cup {address} |-> IF a = address THEN message ELSE fr[a]]

\* delete frag[address]
FragDelete(fr, address) == [a \in DOMAIN fr \ {address} |-> fr[a]]

\* String(number).padEnd(digits, '0')
RECURSIVE padDigitsEnd(_, _)
padDigitsEnd(number, digits) ==
    IF Len(number) >= digits THEN number
    ELSE padDigitsEnd(number \o <<"0">>, digits)

\* String(number).padStart(digits, '0')
RECURSIVE padDigits(_, _)
padDigits(number, digits) ==
    IF Len(number) >= digits THEN number
    ELSE padDigits(<<"0">> \o number, digits)

-----------------------------------------------------------------------------
(* The line handler, in two steps. Scan is everything the handler takes     *)
(* from the text of the line under the configuration: the branch, whether   *)
(* it returned early, address, message, trimMessage, an embedded time, and  *)
(* for a FLEX frame with an extracted payload the fragmentation branch      *)
(* ("F", "C", "K", "full"; "none" otherwise). Decode and Filter do what    *)
(* on the clock, on frag and on what SAME.decode returned.                  *)

Scanned(branch, address, message, trimMessage, stamped, unix, code) ==
    [branch |-> branch, returned |-> FALSE, address |-> address,
     message |-> message, trimMessage |-> trimMessage,
     stamped |-> stamped, unix |-> unix, code |-> code]

\* return inside a branch
ScanReturned(branch) ==
    [Scanned(branch, <<>>, JsFalse, <<>>, FALSE, 0, "none") EXCEPT !.returned = TRUE]

\* let message = false; let trimMessage = ''; datetime = moment().unix()
NoPayload == [message |-> JsFalse, trimMessage |-> <<>>, stamped |-> FALSE, unix |-> 0]

\* s.match(re1) || s.match(re2): the first of two patterns that matches s
MatchEither(re1, re2, s) ==
    Let(Match(re1, s), LAMBDA m1 : IF m1.found THEN m1 ELSE Match(re2, s))

\* Lines 118-128: the time embedded in an Alpha message, and the message
\* without it: [message, stamped, unix]
AlphaTimestamp(message, c) ==
    Let(MatchEither(LONG_DATE_REGEX, ISO_DATE_LOOSE_REGEX, message),
        LAMBDA timestampMatch :
        IF ~(useTimestamp(c) /\ timestampMatch.found)
        THEN [message |-> message, stamped |-> FALSE, unix |-> 0]
        ELSE Let(Whole(timestampMatch, message), LAMBDA timeString :
             Let(Moment(timeString), LAMBDA t :
                 [message |-> IF t.stamped
                              THEN Trim(ReplaceFirst(message, timeString, <<>>))
                              ELSE message,
                  stamped |-> t.stamped, unix |-> t.unix])))

\* Lines 114-132: the Alpha payload
PocsagAlpha(line, c) ==
    Let(Match(ALPHA_REGEX, line), LAMBDA alphaMatch :
        IF ~(alphaMatch.found /\ Truthy(Group(alphaMatch, line, Len(S_ALPHA) + 1)))
        THEN NoPayload
        ELSE Let(AlphaTimestamp(Trim(Group(alphaMatch, line, Len(S_ALPHA) + 1)), c),
                 LAMBDA a :
                 [message |-> a.message, trimMessage |-> Trim(Clean(a.message)),
                  stamped |-> a.stamped, unix |-> a.unix]))

\* Lines 133-141: the Numeric payload
PocsagNumeric(line) ==
    Let(Match(NUMERIC_REGEX, line), LAMBDA numericMatch :
        IF ~(numericMatch.found
              /\ Truthy(Group(numericMatch, line, Len(S_NUMERIC) + 1)))
        THEN NoPayload
        ELSE Let(Trim(Group(numericMatch, line, Len(S_NUMERIC) + 1)),
                 LAMBDA message :
                 [message |-> message, trimMessage |-> Clean(message),
                  stamped |-> FALSE, unix |-> 0]))

\* The function code appended without if (sendFunctionCode).
WithFunctionCodeAlways(line, c, address) ==
    Let(Match(POCSAG_FUNCTION_REGEX, line), LAMBDA matchFunction :
        IF /\ matchFunction.found
           /\ Truthy(Group(matchFunction, line, POCSAG_FUNCTION_GROUP))
        THEN address \o Group(matchFunction, line, POCSAG_FUNCTION_GROUP)
        ELSE address)

\* Lines 105-112: the address with the function code appended
WithFunctionCode(line, c, address) ==
    Let(Match(POCSAG_FUNCTION_REGEX, line), LAMBDA matchFunction :
        IF /\ sendFunctionCode(c)
           /\ matchFunction.found
           /\ Truthy(Group(matchFunction, line, POCSAG_FUNCTION_GROUP))
        THEN address \o Group(matchFunction, line, POCSAG_FUNCTION_GROUP)
        ELSE address)

\* Lines 114, 133: the payload of a POCSAG line
PocsagPayload(line, c) ==
    IF Includes(line, S_ALPHA) THEN PocsagAlpha(line, c)
    ELSE IF Includes(line, S_NUMERIC) THEN PocsagNumeric(line)
    ELSE NoPayload

\* Lines 96-142: POCSAG processing
Pocsag(line, c) ==
    Let(Match(POCSAG_ADDRESS_REGEX, line), LAMBDA matchAddress :
        IF ~(matchAddress.found
              /\ Truthy(Group(matchAddress, line, POCSAG_ADDRESS_GROUP)))
        THEN ScanReturned("POCSAG")
        ELSE Let(PocsagPayload(line, c), LAMBDA payload :
                 Scanned("POCSAG",
                         WithFunctionCode(line, c,
                             Trim(Group(matchAddress, line, POCSAG_ADDRESS_GROUP))),
                         payload.message, payload.trimMessage,
                         payload.stamped, payload.unix, "none")))

\* timestampMatch[0].replace(/FLEX[:|] ?/, '')
WithoutFlexPrefix(found) ==
    Let(Match(FLEX_TS_PREFIX, found), LAMBDA prefix :
        SubSeq(found, 1, prefix.start - 1)
            \o SubSeq(found, prefix.start + SumTo(prefix.lens, Len(prefix.lens)),
                      Len(found)))

\* Lines 153-162: the time embedded in a FLEX line
FlexTimestamp(line, c) ==
    Let(MatchEither(FLEX_TS_PREFIX \o LONG_DATE_REGEX,
                    FLEX_TS_PREFIX \o ISO_DATE_REGEX, line),
        LAMBDA timestampMatch :
        IF useTimestamp(c) /\ timestampMatch.found
        THEN Moment(WithoutFlexPrefix(Whole(timestampMatch, line)))
        ELSE NoTime)

\* Lines 168-183: the fragmentation branch of a FLEX line
FlexCode(line) ==
    IF Test(FragCode("F"), line) THEN "F"
    ELSE IF Test(FragCode("C"), line) THEN "C"
    ELSE IF Test(FragCode("K"), line) THEN "K"
    ELSE "full"

\* Lines 164-167, 184-187: the FLEX message
FlexMessage(line, address, ts) ==
    Let(Match(FLEX_MESSAGE_REGEX, line), LAMBDA messageMatch :
        IF ~TestAny(ALN_GPN_NUM_REGEX, line)
           \/ ~(messageMatch.found
                 /\ Truthy(Group(messageMatch, line, FLEX_MESSAGE_GROUP)))
        THEN Scanned("FLEX", address, JsFalse, <<>>, ts.stamped, ts.unix, "none")
        ELSE Let(Trim(Group(messageMatch, line, FLEX_MESSAGE_GROUP)),
                 LAMBDA message :
                 Scanned("FLEX", address, message, message, ts.stamped, ts.unix,
                         FlexCode(line))))

\* Lines 144-188: FLEX processing
Flex(line, c) ==
    Let(Match(FLEX_ADDRESS_REGEX, line), LAMBDA matchFlexAddress :
        IF ~(matchFlexAddress.found
              /\ Truthy(Group(matchFlexAddress, line, FLEX_ADDRESS_GROUP)))
        THEN ScanReturned("FLEX")
        ELSE Let(FlexTimestamp(line, c), LAMBDA ts :
                 FlexMessage(line,
                             Trim(Group(matchFlexAddress, line, FLEX_ADDRESS_GROUP)),
                             ts)))

\* The if-chain with the FLEX test moved before the POCSAG test.
ScanFlexFirst(line, c) ==
    IF Test(FLEX_ADDRESS_REGEX, line) THEN Flex(line, c)
    ELSE IF Test(POCSAG_TEST_REGEX, line) THEN Pocsag(line, c)
    ELSE IF TestAny(EAS_REGEX, line)
    THEN Scanned("EAS", <<>>, JsFalse, <<>>, FALSE, 0, "none")
    ELSE Scanned("UNKNOWN", <<>>, JsFalse, <<>>, FALSE, 0, "none")

\* The if-chain with a plain else in place of else if (EAS_REGEX.test(line)).
ScanElseEas(line, c) ==
    IF Test(POCSAG_TEST_REGEX, line) THEN Pocsag(line, c)
    ELSE IF Test(FLEX_ADDRESS_REGEX, line) THEN Flex(line, c)
    ELSE Scanned("EAS", <<>>, JsFalse, <<>>, FALSE, 0, "none")

\* Lines 95-210: the branch the line takes, in the order of the if-chain
Scan(line, c) ==
    IF Test(POCSAG_TEST_REGEX, line) THEN Pocsag(line, c)
    ELSE IF Test(FLEX_ADDRESS_REGEX, line) THEN Flex(line, c)
    ELSE IF TestAny(EAS_REGEX, line)
    THEN Scanned("EAS", <<>>, JsFalse, <<>>, FALSE, 0, "none")
    ELSE Scanned("UNKNOWN", <<>>, JsFalse, <<>>, FALSE, 0, "none")

-----------------------------------------------------------------------------
(* The input lines of the model, each the text multimon-ng would print.     *)

\* POCSAG512: Address: 1234567  Function: 3  Alpha: TEST MESSAGE
P_ALPHA ==
    <<"P", "O", "C", "S", "A", "G", "5", "1", "2", ":", " ", "A", "d", "d",
      "r", "e", "s", "s", ":", " ", "1", "2", "3", "4", "5", "6", "7", " ",
      " ", "F", "u", "n", "c", "t", "i", "o", "n", ":", " ", "3", " ", " ",
      "A", "l", "p", "h", "a", ":", " ", "T", "E", "S", "T", " ", "M", "E",
      "S", "S", "A", "G", "E">>
\* POCSAG512: Address:     123  Function: 0  Alpha: <NUL>
P_CTRL ==
    <<"P", "O", "C", "S", "A", "G", "5", "1", "2", ":", " ", "A", "d", "d",
      "r", "e", "s", "s", ":", " ", " ", " ", " ", " ", "1", "2", "3", " ",
      " ", "F", "u", "n", "c", "t", "i", "o", "n", ":", " ", "0", " ", " ",
      "A", "l", "p", "h", "a", ":", " ", "<", "N", "U", "L", ">">>
\* POCSAG512: Address: 1234567  Function: 1  Alpha: FIRE 2017-06-04 12:00:00
P_TS ==
    <<"P", "O", "C", "S", "A", "G", "5", "1", "2", ":", " ", "A", "d", "d",
      "r", "e", "s", "s", ":", " ", "1", "2", "3", "4", "5", "6", "7", " ",
      " ", "F", "u", "n", "c", "t", "i", "o", "n", ":", " ", "1", " ", " ",
      "A", "l", "p", "h", "a", ":", " ", "F", "I", "R", "E", " ", "2", "0",
      "1", "7", "-", "0", "6", "-", "0", "4", " ", "1", "2", ":", "0", "0",
      ":", "0", "0">>
\* POCSAG512: Address: 1234567  Function: 1  Alpha: 04 June 2017 12:00:00 ÄGOÜ
P_TSLONG ==
    <<"P", "O", "C", "S", "A", "G", "5", "1", "2", ":", " ", "A", "d", "d",
      "r", "e", "s", "s", ":", " ", "1", "2", "3", "4", "5", "6", "7", " ",
      " ", "F", "u", "n", "c", "t", "i", "o", "n", ":", " ", "1", " ", " ",
      "A", "l", "p", "h", "a", ":", " ", "0", "4", " ", "J", "u", "n", "e",
      " ", "2", "0", "1", "7", " ", "1", "2", ":", "0", "0", ":", "0", "0",
      " ", "Ä", "G", "O", "Ü">>
\* POCSAG512: Address: 1234567  Function: 1  Alpha: 2017-13-04 12:00:00 X
P_TSBAD ==
    <<"P", "O", "C", "S", "A", "G", "5", "1", "2", ":", " ", "A", "d", "d",
      "r", "e", "s", "s", ":", " ", "1", "2", "3", "4", "5", "6", "7", " ",
      " ", "F", "u", "n", "c", "t", "i", "o", "n", ":", " ", "1", " ", " ",
      "A", "l", "p", "h", "a", ":", " ", "2", "0", "1", "7", "-", "1", "3",
      "-", "0", "4", " ", "1", "2", ":", "0", "0", ":", "0", "0", " ", "X">>
\* POCSAG512: Address: 1234567  Function: 1  Alpha: 2017-06-04 12:00:00
P_TSONLY ==
    <<"P", "O", "C", "S", "A", "G", "5", "1", "2", ":", " ", "A", "d", "d",
      "r", "e", "s", "s", ":", " ", "1", "2", "3", "4", "5", "6", "7", " ",
      " ", "F", "u", "n", "c", "t", "i", "o", "n", ":", " ", "1", " ", " ",
      "A", "l", "p", "h", "a", ":", " ", "2", "0", "1", "7", "-", "0", "6",
      "-", "0", "4", " ", "1", "2", ":", "0", "0", ":", "0", "0">>
\* POCSAG512: Address: 1234567  Function: 2  Numeric: 555 <EOT>
P_NUM ==
    <<"P", "O", "C", "S", "A", "G", "5", "1", "2", ":", " ", "A", "d", "d",
      "r", "e", "s", "s", ":", " ", "1", "2", "3", "4", "5", "6", "7", " ",
      " ", "F", "u", "n", "c", "t", "i", "o", "n", ":", " ", "2", " ", " ",
      "N", "u", "m", "e", "r", "i", "c", ":", " ", "5", "5", "5", " ", "<",
      "E", "O", "T", ">">>
\* POCSAG512: Address: 1234567  Function: 2  Numeric: <NUL>
P_NUMCTRL ==
    <<"P", "O", "C", "S", "A", "G", "5", "1", "2", ":", " ", "A", "d", "d",
      "r", "e", "s", "s", ":", " ", "1", "2", "3", "4", "5", "6", "7", " ",
      " ", "F", "u", "n", "c", "t", "i", "o", "n", ":", " ", "2", " ", " ",
      "N", "u", "m", "e", "r", "i", "c", ":", " ", "<", "N", "U", "L", ">">>
\* POCSAG512: Address:      12  Function: 0  Alpha: HI
P_SHORT ==
    <<"P", "O", "C", "S", "A", "G", "5", "1", "2", ":", " ", "A", "d", "d",
      "r", "e", "s", "s", ":", " ", " ", " ", " ", " ", " ", "1", "2", " ",
      " ", "F", "u", "n", "c", "t", "i", "o", "n", ":", " ", "0", " ", " ",
      "A", "l", "p", "h", "a", ":", " ", "H", "I">>
\* POCSAG512: Address: 1234567  Function: 3
P_NOPAY ==
    <<"P", "O", "C", "S", "A", "G", "5", "1", "2", ":", " ", "A", "d", "d",
      "r", "e", "s", "s", ":", " ", "1", "2", "3", "4", "5", "6", "7", " ",
      " ", "F", "u", "n", "c", "t", "i", "o", "n", ":", " ", "3">>
\* POCSAG512: Address: 1234567  Function:   Alpha: HI
P_NOFUNC ==
    <<"P", "O", "C", "S", "A", "G", "5", "1", "2", ":", " ", "A", "d", "d",
      "r", "e", "s", "s", ":", " ", "1", "2", "3", "4", "5", "6", "7", " ",
      " ", "F", "u", "n", "c", "t", "i", "o", "n", ":", " ", " ", " ", "A",
      "l", "p", "h", "a", ":", " ", "H", "I">>
\* POCSAG512: Address: 77 FLEX: [0012345] ALN 1600/2/F/A ZCZC-X
P_NOADDR ==
    <<"P", "O", "C", "S", "A", "G", "5", "1", "2", ":", " ", "A", "d", "d",
      "r", "e", "s", "s", ":", " ", "7", "7", " ", "F", "L", "E", "X", ":",
      " ", "[", "0", "0", "1", "2", "3", "4", "5", "]", " ", "A", "L", "N",
      " ", "1", "6", "0", "0", "/", "2", "/", "F", "/", "A", " ", "Z", "C",
      "Z", "C", "-", "X">>
\* POCSAG512: Address: 1234567  Function: 3  Alpha: FLEX: [0012345] ALN 1600/2/C/A EAS: X
P_FLEXEAS ==
    <<"P", "O", "C", "S", "A", "G", "5", "1", "2", ":", " ", "A", "d", "d",
      "r", "e", "s", "s", ":", " ", "1", "2", "3", "4", "5", "6", "7", " ",
      " ", "F", "u", "n", "c", "t", "i", "o", "n", ":", " ", "3", " ", " ",
      "A", "l", "p", "h", "a", ":", " ", "F", "L", "E", "X", ":", " ", "[",
      "0", "0", "1", "2", "3", "4", "5", "]", " ", "A", "L", "N", " ", "1",
      "6", "0", "0", "/", "2", "/", "C", "/", "A", " ", "E", "A", "S", ":",
      " ", "X">>
\* FLEX: 1600/2/F/A 04.105 [0012345] ALN HELLO 
F_A_F_HELLO ==
    <<"F", "L", "E", "X", ":", " ", "1", "6", "0", "0", "/", "2", "/", "F",
      "/", "A", " ", "0", "4", ".", "1", "0", "5", " ", "[", "0", "0", "1",
      "2", "3", "4", "5", "]", " ", "A", "L", "N", " ", "H", "E", "L", "L",
      "O", " ">>
\* FLEX: 1600/2/F/A 04.105 [0012345] ALN AGAIN
F_A_F_AGAIN ==
    <<"F", "L", "E", "X", ":", " ", "1", "6", "0", "0", "/", "2", "/", "F",
      "/", "A", " ", "0", "4", ".", "1", "0", "5", " ", "[", "0", "0", "1",
      "2", "3", "4", "5", "]", " ", "A", "L", "N", " ", "A", "G", "A", "I",
      "N">>
\* FLEX: 1600/2/C/A 04.105 [0012345] ALN WORLD
F_A_C_WORLD ==
    <<"F", "L", "E", "X", ":", " ", "1", "6", "0", "0", "/", "2", "/", "C",
      "/", "A", " ", "0", "4", ".", "1", "0", "5", " ", "[", "0", "0", "1",
      "2", "3", "4", "5", "]", " ", "A", "L", "N", " ", "W", "O", "R", "L",
      "D">>
\* FLEX: 1600/2/C/A 04.105 [0012345] ALN  
F_A_C_EMPTY ==
    <<"F", "L", "E", "X", ":", " ", "1", "6", "0", "0", "/", "2", "/", "C",
      "/", "A", " ", "0", "4", ".", "1", "0", "5", " ", "[", "0", "0", "1",
      "2", "3", "4", "5", "]", " ", "A", "L", "N", " ", " ">>
\* FLEX: 2017-06-04 12:00:00 1600/2/K/A 04.105 [0012345] ALN FULL
F_A_K_FULL ==
    <<"F", "L", "E", "X", ":", " ", "2", "0", "1", "7", "-", "0", "6", "-",
      "0", "4", " ", "1", "2", ":", "0", "0", ":", "0", "0", " ", "1", "6",
      "0", "0", "/", "2", "/", "K", "/", "A", " ", "0", "4", ".", "1", "0",
      "5", " ", "[", "0", "0", "1", "2", "3", "4", "5", "]", " ", "A", "L",
      "N", " ", "F", "U", "L", "L">>
\* FLEX: 1600/2/A 04.105 [0012345] GPN ZCZC-X
F_A_X_EAS ==
    <<"F", "L", "E", "X", ":", " ", "1", "6", "0", "0", "/", "2", "/", "A",
      " ", "0", "4", ".", "1", "0", "5", " ", "[", "0", "0", "1", "2", "3",
      "4", "5", "]", " ", "G", "P", "N", " ", "Z", "C", "Z", "C", "-", "X">>
\* FLEX: 1600/2/F/A 04.105 [0012345] TON 12
F_A_TONE ==
    <<"F", "L", "E", "X", ":", " ", "1", "6", "0", "0", "/", "2", "/", "F",
      "/", "A", " ", "0", "4", ".", "1", "0", "5", " ", "[", "0", "0", "1",
      "2", "3", "4", "5", "]", " ", "T", "O", "N", " ", "1", "2">>
\* FLEX|2017-06-04 12:00:00|1600/2/F/A|04.105|0054321|ALN|PART
F_B_F_PIPE ==
    <<"F", "L", "E", "X", "|", "2", "0", "1", "7", "-", "0", "6", "-", "0",
      "4", " ", "1", "2", ":", "0", "0", ":", "0", "0", "|", "1", "6", "0",
      "0", "/", "2", "/", "F", "/", "A", "|", "0", "4", ".", "1", "0", "5",
      "|", "0", "0", "5", "4", "3", "2", "1", "|", "A", "L", "N", "|", "P",
      "A", "R", "T">>
\* FLEX|2017-06-04 12:00:00|1600/2/C/A|04.105|0054321|NUM|DONE
F_B_C_PIPE ==
    <<"F", "L", "E", "X", "|", "2", "0", "1", "7", "-", "0", "6", "-", "0",
      "4", " ", "1", "2", ":", "0", "0", ":", "0", "0", "|", "1", "6", "0",
      "0", "/", "2", "/", "C", "/", "A", "|", "0", "4", ".", "1", "0", "5",
      "|", "0", "0", "5", "4", "3", "2", "1", "|", "N", "U", "M", "|", "D",
      "O", "N", "E">>
\* FLEX: 1600/2/F/A 04.105 [12] ALN TINY
F_S_F_SHORT ==
    <<"F", "L", "E", "X", ":", " ", "1", "6", "0", "0", "/", "2", "/", "F",
      "/", "A", " ", "0", "4", ".", "1", "0", "5", " ", "[", "1", "2", "]",
      " ", "A", "L", "N", " ", "T", "I", "N", "Y">>
\* FLEX: || ALN 1600/2/F/A LOST
F_NOADDR ==
    <<"F", "L", "E", "X", ":", " ", "|", "|", " ", "A", "L", "N", " ", "1",
      "6", "0", "0", "/", "2", "/", "F", "/", "A", " ", "L", "O", "S", "T">>
\* EAS: ZCZC-WXR-RWT-012345+0030-1561200-KABC/NWS-
E_ZCZC ==
    <<"E", "A", "S", ":", " ", "Z", "C", "Z", "C", "-", "W", "X", "R", "-",
      "R", "W", "T", "-", "0", "1", "2", "3", "4", "5", "+", "0", "0", "3",
      "0", "-", "1", "5", "6", "1", "2", "0", "0", "-", "K", "A", "B", "C",
      "/", "N", "W", "S", "-">>
\* Enabled demodulators: POCSAG512 FLEX
U_BANNER ==
    <<"E", "n", "a", "b", "l", "e", "d", " ", "d", "e", "m", "o", "d", "u",
      "l", "a", "t", "o", "r", "s", ":", " ", "P", "O", "C", "S", "A", "G",
      "5", "1", "2", " ", "F", "L", "E", "X">>
\* POCSAG512 Address: 1234567  Function: 0  Alpha: HI
U_NEAR ==
    <<"P", "O", "C", "S", "A", "G", "5", "1", "2", " ", "A", "d", "d", "r",
      "e", "s", "s", ":", " ", "1", "2", "3", "4", "5", "6", "7", " ", " ",
      "F", "u", "n", "c", "t", "i", "o", "n", ":", " ", "0", " ", " ", "A",
      "l", "p", "h", "a", ":", " ", "H", "I">>

\* Every line of the model.
Lines ==
    <<P_ALPHA, P_CTRL, P_TS, P_TSLONG, P_TSBAD,
      P_TSONLY, P_NUM, P_NUMCTRL, P_SHORT, P_NOPAY,
      P_NOFUNC, P_NOADDR, P_FLEXEAS, F_A_F_HELLO, F_A_F_AGAIN,
      F_A_C_WORLD, F_A_C_EMPTY, F_A_K_FULL, F_A_X_EAS, F_A_TONE,
      F_B_F_PIPE, F_B_C_PIPE, F_S_F_SHORT, F_NOADDR, E_ZCZC,
      U_BANNER, U_NEAR>>

LineIds == 1..Len(Lines)

\* The place of a line in Lines.
IdOf(line) == CHOOSE l \in LineIds : Lines[l] = line

Configs ==
    [sendFunctionCode : BOOLEAN, useTimestamp : BOOLEAN, addressAddType : BOOLEAN]

\* Scan of every line under every configuration, computed once.
Scans == [l \in LineIds, c \in Configs |-> Scan(Lines[l], c)] @@ <<>>

\* Which of the three patterns each line matches, each tested on its own.
Patterns ==
    [l \in LineIds |->
        [pocsag |-> Test(POCSAG_TEST_REGEX, Lines[l]),
         flex |-> Test(FLEX_ADDRESS_REGEX, Lines[l]),
         eas |-> TestAny(EAS_REGEX, Lines[l])]] @@ <<>>

-----------------------------------------------------------------------------
(* SAME.decode (jsame), an opaque decoder: what it may return for an EAS    *)
(* line. No result, a full result, a result without an organization code,   *)
(* or an empty result.                                                      *)

SameNone == [ok |-> FALSE, org |-> Undefined, type |-> Undefined, msg |-> Undefined]

SameFull ==
    [ok |-> TRUE, org |-> <<"0", "1", "2", "3", "4", "5">>,
     type |-> <<"R", "W", "T">>,
     msg |-> <<"T", "e", "s", "t", " ", "m", "e", "s", "s", "a", "g", "e">>]

SameNoOrg == [SameFull EXCEPT !.org = Undefined]

\* An object with none of the fields read
SameEmpty ==
    [ok |-> TRUE, org |-> Undefined, type |-> Undefined, msg |-> Undefined]

SameResults == {SameNone, SameFull, SameNoOrg, SameEmpty}

-----------------------------------------------------------------------------
(* The second step of the handler. Each branch gives the handler's locals   *)
(* when the branch ends, with frag, whether SAME.decode was called, and     *)
(* what the branch did with frag ("none", "set", "take").                   *)

Locals(sc, address, message, trimMessage, datetime, fr, fragUse) ==
    [branch |-> sc.branch, returned |-> sc.returned, address |-> address,
     message |-> message, trimMessage |-> trimMessage, datetime |-> datetime,
     frag |-> fr, same |-> FALSE, fragUse |-> fragUse]

\* The fragmentation storage without delete frag[address].
FlexFragmentKeeps(sc, datetime, fr) ==
    IF sc.code = "F"
    THEN Locals(sc, sc.address, JsFalse, <<>>, datetime,
                FragSet(fr, sc.address, sc.message), "set")
    ELSE IF sc.code = "C"
    THEN Locals(sc, sc.address, sc.message,
                OrElse(FragGet(fr, sc.address), <<>>) \o sc.message, datetime,
                fr, "take")
    ELSE Locals(sc, sc.address, sc.message, sc.message, datetime, fr, "none")

\* Lines 168-183: the fragmentation storage
FlexFragment(sc, datetime, fr) ==
    IF sc.code = "F"
    THEN \* Fragmented message
         Locals(sc, sc.address, JsFalse, <<>>, datetime,
                FragSet(fr, sc.address, sc.message), "set")
    ELSE IF sc.code = "C"
    THEN \* Completion of fragmented message
         Locals(sc, sc.address, sc.message,
                OrElse(FragGet(fr, sc.address), <<>>) \o sc.message, datetime,
                FragDelete(fr, sc.address), "take")
    ELSE \* Full message (K), or treated as one
         Locals(sc, sc.address, sc.message, sc.message, datetime, fr, "none")

\* `${value}` in a template literal
TemplateString(v) == IF v = Undefined THEN S_UNDEFINED ELSE v

\* Lines 190-204: EAS processing; decodedMessage is what SAME.decode returned
\* ([ok |-> FALSE] for no result, else its "LLLL-ORG", "type" and "MESSAGE").
Eas(sc, c, fr, now, decodedMessage) ==
    IF decodedMessage.ok
    THEN [Locals(sc,
                 IF c.addressAddType
                 THEN TemplateString(decodedMessage.org) \o <<"-">>
                          \o TemplateString(decodedMessage.type)
                 ELSE decodedMessage.org,
                 decodedMessage.msg, decodedMessage.msg, now, fr, "none")
             EXCEPT !.same = TRUE]
    ELSE [Locals(sc, <<>>, JsFalse, <<>>, now, fr, "none") EXCEPT !.same = TRUE]

\* Lines 88-210: the locals at the filter
Decode(sc, c, fr, now, decodedMessage) ==
    LET datetime == IF sc.stamped THEN sc.unix ELSE now
    IN IF sc.branch = "EAS" THEN Eas(sc, c, fr, now, decodedMessage)
       ELSE IF sc.branch = "FLEX" /\ sc.code # "none"
       THEN FlexFragment(sc, datetime, fr)
       ELSE Locals(sc, sc.address, sc.message, sc.trimMessage, datetime, fr, "none")

NoForm == [address |-> <<>>, message |-> <<>>, datetime |-> 0, source |-> <<>>]

\* The filter without && message.
FilterAddressOnly(d) ==
    LET threw == ~d.returned /\ d.address = Undefined
        passes == ~d.returned /\ ~threw /\ Len(d.address) > 2
    IN [branch |-> d.branch, returned |-> d.returned, threw |-> threw,
        same |-> d.same, fragUse |-> d.fragUse, frag |-> d.frag,
        address |-> d.address, message |-> d.message,
        sent |-> passes,
        form |-> IF passes
                 THEN [address |-> padDigits(d.address, 7),
                       message |-> d.trimMessage,
                       datetime |-> d.datetime,
                       source |-> identifier]
                 ELSE NoForm]

\* The filter with address.length >= 2.
FilterLoose(d) ==
    LET threw == ~d.returned /\ d.address = Undefined
        passes == ~d.returned /\ ~threw /\ Len(d.address) >= 2 /\ Truthy(d.message)
    IN [branch |-> d.branch, returned |-> d.returned, threw |-> threw,
        same |-> d.same, fragUse |-> d.fragUse, frag |-> d.frag,
        address |-> d.address, message |-> d.message,
        sent |-> passes,
        form |-> IF passes
                 THEN [address |-> padDigits(d.address, 7),
                       message |-> d.trimMessage,
                       datetime |-> d.datetime,
                       source |-> identifier]
                 ELSE NoForm]

\* Lines 212-229 and the catch block: address.length throws a TypeError when
\* address is undefined, and the catch block only logs.
Filter(d) ==
    LET threw == ~d.returned /\ d.address = Undefined
        passes == ~d.returned /\ ~threw /\ Len(d.address) > 2 /\ Truthy(d.message)
    IN [branch |-> d.branch, returned |-> d.returned, threw |-> threw,
        same |-> d.same, fragUse |-> d.fragUse, frag |-> d.frag,
        address |-> d.address, message |-> d.message,
        sent |-> passes,
        form |-> IF passes
                 THEN [address |-> padDigits(d.address, 7),
                       message |-> d.trimMessage,
                       datetime |-> d.datetime,
                       source |-> identifier]
                 ELSE NoForm]

\* rl.on('line', ...): what handling line l does
HandleLine(l, c, fr, now, decodedMessage) ==
    Filter(Decode(Scans[l, c], c, fr, now, decodedMessage))

-----------------------------------------------------------------------------
(* The bounds of the model *)

\* Lines read in Spec, in SpecFrag and in SpecRetry
MaxLines == 2
MaxFragLines == 3
MaxRetryLines == 2

\* if (retries < 10)
MaxRetries == 10

\* moment().unix() when line n + 1 is handled: the clock ticks between lines
Now(n) == 1700000000 + n

-----------------------------------------------------------------------------
(* sendPage: hist holds one record per line handled, msgs one entry per     *)
(* message handed to sendPage: its form, the line it came from, the retries *)
(* of its current sendPage call, where that call stands ("request": rp is   *)
(* outstanding, "timer": setTimeout is pending, "delivered", "abandoned"),  *)
(* the delays scheduled so far, the requests made so far, and the numbers   *)
(* of its requests not yet settled and of its timers not yet fired.         *)

RECURSIVE Pow2(_)
Pow2(n) == IF n = 0 THEN 1 ELSE 2 * Pow2(n - 1)

NewMessage(form, origin) ==
    [form |-> form, origin |-> origin, retries |-> 0, phase |-> "new",
     delays |-> <<>>, requests |-> 0, inflight |-> 0, timers |-> 0]

\* sendPage(message, retries): rp(options) is issued
sendPage(m, retries) ==
    [m EXCEPT !.retries = retries, !.phase = "request", !.requests = @ + 1,
              !.inflight = @ + 1]

\* .then: nothing more is done
OnSuccess(m) == [m EXCEPT !.phase = "delivered", !.inflight = @ - 1]

\* .catch with if (retries <= 10).
OnFailureOneMore(m) ==
    IF m.retries <= MaxRetries
    THEN [m EXCEPT !.delays = Append(@, Pow2(m.retries) * 1000),
                   !.retries = @ + 1,
                   !.phase = "timer",
                   !.inflight = @ - 1,
                   !.timers = @ + 1]
    ELSE [m EXCEPT !.phase = "abandoned", !.inflight = @ - 1]

\* .catch that schedules the retry and also calls sendPage at once.
OnFailureTwice(m) ==
    IF m.retries < MaxRetries
    THEN [m EXCEPT !.delays = Append(@, Pow2(m.retries) * 1000),
                   !.retries = @ + 1,
                   !.phase = "timer",
                   !.requests = @ + 1,
                   !.timers = @ + 1]
    ELSE [m EXCEPT !.phase = "abandoned", !.inflight = @ - 1]

\* .catch: schedule the retry, or give up
OnFailure(m) ==
    IF m.retries < MaxRetries
    THEN [m EXCEPT !.delays = Append(@, Pow2(m.retries) * 1000),
                   !.retries = @ + 1,
                   !.phase = "timer",
                   !.inflight = @ - 1,
                   !.timers = @ + 1]
    ELSE [m EXCEPT !.phase = "abandoned", !.inflight = @ - 1]

Init ==
    /\ cfg \in Configs
    /\ frag = <<>>
    /\ hist = <<>>
    /\ msgs = <<>>

\* The handler without try and catch: an exception thrown while a line is
\* handled ends the process, and no line is read after it.
ReadLineUncaught(l, decodedMessage) ==
    LET out == HandleLine(l, cfg, frag, Now(Len(hist)), decodedMessage)
    IN /\ \A k \in DOMAIN hist : ~hist[k].out.threw
       /\ frag' = out.frag
       /\ hist' = Append(hist, [line |-> l, now |-> Now(Len(hist)),
                                fragBefore |-> frag, out |-> out])
       /\ msgs' = IF out.sent
                  THEN Append(msgs, sendPage(NewMessage(out.form, Len(hist) + 1), 0))
                  ELSE msgs
       /\ UNCHANGED cfg

\* rl.on('line'): the handler runs to its end, the call of sendPage included
ReadLine(l, decodedMessage) ==
    LET out == HandleLine(l, cfg, frag, Now(Len(hist)), decodedMessage)
    IN /\ frag' = out.frag
       /\ hist' = Append(hist, [line |-> l, now |-> Now(Len(hist)),
                                fragBefore |-> frag, out |-> out])
       /\ msgs' = IF out.sent
                  THEN Append(msgs, sendPage(NewMessage(out.form, Len(hist) + 1), 0))
                  ELSE msgs
       /\ UNCHANGED cfg

\* .then with delete frag[message.address].
RequestSucceedsForgets(i) ==
    /\ i \in DOMAIN msgs
    /\ msgs[i].phase = "request"
    /\ msgs' = [msgs EXCEPT ![i] = OnSuccess(@)]
    /\ frag' = FragDelete(frag, msgs[i].form.address)
    /\ UNCHANGED <<cfg, hist>>

\* The request of message i succeeds.
RequestSucceeds(i) ==
    /\ i \in DOMAIN msgs
    /\ msgs[i].phase = "request"
    /\ msgs' = [msgs EXCEPT ![i] = OnSuccess(@)]
    /\ UNCHANGED <<cfg, frag, hist>>

\* A failed request with one retry count kept for all messages: the failure
\* is counted for every message.
RequestFailsShared(i) ==
    /\ i \in DOMAIN msgs
    /\ msgs[i].phase = "request"
    /\ msgs' = [j \in DOMAIN msgs |->
                   IF j = i THEN [msgs[j] EXCEPT !.delays = Append(@, Pow2(msgs[j].retries) * 1000),
                                                 !.retries = @ + 1,
                                                 !.phase = "timer",
                                                 !.inflight = @ - 1,
                                                 !.timers = @ + 1]
                   ELSE [msgs[j] EXCEPT !.retries = @ + 1]]
    /\ UNCHANGED <<cfg, frag, hist>>

\* The request of message i fails.
RequestFails(i) ==
    /\ i \in DOMAIN msgs
    /\ msgs[i].phase = "request"
    /\ msgs' = [msgs EXCEPT ![i] = OnFailure(@)]
    /\ UNCHANGED <<cfg, frag, hist>>

\* The timer fires with a callback that does not call sendPage.
TimerFiresLost(i) ==
    /\ i \in DOMAIN msgs
    /\ msgs[i].phase = "timer"
    /\ msgs' = [msgs EXCEPT ![i].phase = "lost", ![i].timers = @ - 1]
    /\ UNCHANGED <<cfg, frag, hist>>

\* The retry timer of message i fires: () => sendPage(message, retries)
TimerFires(i) ==
    /\ i \in DOMAIN msgs
    /\ msgs[i].phase = "timer"
    /\ msgs' = [msgs EXCEPT ![i] = sendPage([@ EXCEPT !.timers = @ - 1], @.retries)]
    /\ UNCHANGED <<cfg, frag, hist>>

\* SAME.decode is called, and so has a result, only in the EAS branch.
Decoded(l) == IF Scans[l, cfg].branch = "EAS" THEN SameResults ELSE {SameNone}

Read(ls, max) ==
    /\ Len(hist) < max
    /\ \E l \in ls : \E d \in Decoded(l) : ReadLine(l, d)

Succeed == \E i \in DOMAIN msgs : RequestSucceeds(i)

FailAny == \E i \in DOMAIN msgs : RequestFails(i)

Fire == \E i \in DOMAIN msgs : TimerFires(i)

\* Every line of the model under any configuration, with a collector that
\* answers every request.
Next ==
    \/ Read(LineIds, MaxLines)
    \/ Succeed

Spec == Init /\ [][Next]_vars

-----------------------------------------------------------------------------
(* Longer runs under the default configuration: the FLEX frames and the     *)
(* lines that resemble them, with a collector that answers every request;   *)
(* and a line that is sent and one that is not, with a collector that may   *)
(* fail any request.                                                        *)

DefaultConfig ==
    [sendFunctionCode |-> FALSE, useTimestamp |-> TRUE, addressAddType |-> FALSE]

InitDefault ==
    /\ cfg = DefaultConfig
    /\ frag = <<>>
    /\ hist = <<>>
    /\ msgs = <<>>

FragLineIds ==
    {IdOf(line) : line \in
        {F_A_F_HELLO, F_A_F_AGAIN, F_A_C_WORLD, F_A_C_EMPTY, F_A_K_FULL, F_A_X_EAS,
         F_A_TONE, F_B_F_PIPE, F_B_C_PIPE, F_S_F_SHORT, F_NOADDR, P_NOADDR,
         P_FLEXEAS, E_ZCZC, U_BANNER}}

NextFrag ==
    \/ Read(FragLineIds, MaxFragLines)
    \/ Succeed

SpecFrag == InitDefault /\ [][NextFrag]_vars

RetryLineIds == {IdOf(line) : line \in {P_ALPHA, U_BANNER}}

NextRetry ==
    \/ Read(RetryLineIds, MaxRetryLines)
    \/ Succeed
    \/ FailAny
    \/ Fire

SpecRetry == InitDefault /\ [][NextRetry]_vars

\* Every request rp(options) settles, and every timer set by setTimeout fires.
Fairness ==
    \A i \in 1..MaxRetryLines :
        /\ WF_vars(RequestSucceeds(i) \/ RequestFails(i))
        /\ WF_vars(TimerFires(i))

SpecLive == InitDefault /\ [][NextRetry]_vars /\ Fairness

-----------------------------------------------------------------------------
(* Properties of sendPage *)

Terminal == {"delivered", "abandoned"}

\* 2^(k-1) * 1000 ms for k = 1..10
RetryDelays ==
    <<1000, 2000, 4000, 8000, 16000, 32000, 64000, 128000, 256000, 512000>>

\* C1: a message handed to sendPage(message, 0) is retried at most 10 times,
\* the k-th retry scheduled 2^(k-1)*1000 ms after the k-th failed request
\* (1000, 2000, ..., 512000 in that order); there is no 11th retry whatever
\* the 10th retry's outcome, and when a request fails with the retry count at
\* 10 the message is abandoned: 11 requests made, 10 timers scheduled, no more.
C1_RetryBound ==
    \A i \in DOMAIN msgs :
        LET m == msgs[i]
        IN /\ Len(m.delays) <= 10
           /\ m.delays = SubSeq(RetryDelays, 1, Len(m.delays))
           /\ m.retries = Len(m.delays)
           /\ m.requests = IF m.phase = "timer" THEN Len(m.delays) ELSE Len(m.delays) + 1
           /\ m.requests <= 11
           /\ m.phase = "abandoned" => m.delays = RetryDelays /\ m.requests = 11

\* A message whose 11 requests all failed: retried 10 times, then abandoned.
C1_Abandoned ==
    \E i \in DOMAIN msgs :
        /\ msgs[i].phase = "abandoned"
        /\ msgs[i].delays = RetryDelays
        /\ msgs[i].requests = 11

\* C9: the retry state of each message is its own: a step that changes one
\* message (its request succeeds or fails, its timer fires, it is abandoned)
\* changes no other message, and the retry it schedules after a failure has
\* the delay and the count that follow from that message's own count.
C9_Independent ==
    [][\A i \in DOMAIN msgs :
          msgs'[i] # msgs[i] =>
              /\ \A j \in DOMAIN msgs \ {i} : msgs'[j] = msgs[j]
              /\ msgs'[i].phase = "timer" =>
                     /\ msgs[i].retries < 10
                     /\ msgs'[i].retries = msgs[i].retries + 1
                     /\ msgs'[i].delays = Append(msgs[i].delays, RetryDelays[msgs[i].retries + 1])]_vars

\* Two messages with different fates: the first abandoned after 10 retries,
\* the second delivered by its first retry.
C9_TwoFates ==
    /\ Len(msgs) = 2
    /\ msgs[1].phase = "abandoned"
    /\ msgs[2].phase = "delivered"
    /\ msgs[2].delays = <<1000>>

\* C10: when every request settles and every timer fires, each message handed
\* to sendPage is in the end delivered or abandoned; and once delivered or
\* abandoned nothing more happens to it: no request, no timer.
C10_Terminates ==
    /\ \A i \in 1..MaxRetryLines :
           [](i \in DOMAIN msgs => <>(i \in DOMAIN msgs /\ msgs[i].phase \in Terminal))
    /\ [][\A i \in DOMAIN msgs : msgs[i].phase \in Terminal => msgs'[i] = msgs[i]]_vars

\* A message delivered by its 10th retry, after 10 failed requests.
C10_DeliveredLast ==
    \E i \in DOMAIN msgs : msgs[i].phase = "delivered" /\ msgs[i].requests = 11

-----------------------------------------------------------------------------
(* Properties of the fragmentation storage *)

\* What the handler took from the text of line k of the history.
ScanOf(k) == Scans[hist[k].line, cfg]

\* Line k is a FLEX frame for address a with a content marker, an extracted
\* payload and fragmentation code x.
IsFrame(k, a, x) ==
    /\ ScanOf(k).branch = "FLEX"
    /\ ~ScanOf(k).returned
    /\ ScanOf(k).code = x
    /\ ScanOf(k).address = a

Affects(k, a) == IsFrame(k, a, "F") \/ IsFrame(k, a, "C")

\* The addresses of the frames read and of the entries stored.
Addresses == {ScanOf(k).address : k \in DOMAIN hist} \cup DOMAIN frag

HELLO_WORLD == <<"H", "E", "L", "L", "O", " ", "W", "O", "R", "L", "D">>

\* C2: an F frame for A with payload "HELLO " and a later C frame for A with
\* payload "WORLD" (no other F or C frame for A between them) give exactly
\* one message, sent for the C frame, whose text is "HELLO WORLD".
C2_RoundTrip ==
    \A j, k \in DOMAIN hist :
        (/\ j < k
         /\ hist[j].line = IdOf(F_A_F_HELLO)
         /\ hist[k].line = IdOf(F_A_C_WORLD)
         /\ \A n \in (j + 1)..(k - 1) : ~Affects(n, ScanOf(j).address))
        => /\ ~hist[j].out.sent
           /\ hist[k].out.sent
           /\ hist[k].out.form.message = HELLO_WORLD

\* C3: frag holds an entry for A exactly when the last F or C frame for A
\* was an F frame; an entry is added only by an F frame for its address and
\* removed only by a C frame for it, and every other line leaves it as it was.
C3_FragmentStore ==
    \A a \in Addresses :
        LET ks == {k \in DOMAIN hist : Affects(k, a)}
        IN /\ a \in DOMAIN frag <=>
                  /\ ks # {}
                  /\ IsFrame(CHOOSE k \in ks : \A j \in ks : j <= k, a, "F")
           /\ \A k \in DOMAIN hist :
                  LET before == hist[k].fragBefore
                      after == hist[k].out.frag
                  IN /\ (a \notin DOMAIN before /\ a \in DOMAIN after) => IsFrame(k, a, "F")
                     /\ (a \in DOMAIN before /\ a \notin DOMAIN after) => IsFrame(k, a, "C")
                     /\ FragGet(after, a) # FragGet(before, a) => Affects(k, a)

\* An entry stored by an F frame, removed by a C frame, and a third line that
\* is neither, read while another address has its entry.
C3_StoredRemoved ==
    /\ Len(hist) = 3
    /\ \E a \in Addresses :
           /\ IsFrame(1, a, "F") /\ IsFrame(2, a, "C") /\ ~Affects(3, a)
           /\ a \in DOMAIN hist[2].fragBefore
           /\ a \notin DOMAIN frag
    /\ frag # <<>>

-----------------------------------------------------------------------------
(* Properties of the line handler *)

\* C4: no form handed to sendPage has the empty string or false as message.
C4_NonEmptyMessage ==
    \A i \in DOMAIN msgs : msgs[i].form.message \notin {<<>>, JsFalse}

\* The handler reached the filter (no early return) with an address longer
\* than 2 and a message that is there: not false, not undefined, not ''.
ReachesFilter(out) ==
    /\ ~out.returned
    /\ out.address # Undefined
    /\ Len(out.address) > 2
    /\ out.message \notin {JsFalse, Undefined, <<>>}

\* C5: handling a line calls sendPage exactly once, with retries 0 and with
\* source = identifier, when the handler reaches the filter with an address
\* longer than 2 and a message that is present and not false; otherwise it
\* calls sendPage not at all.
C5_Filter ==
    [][hist' # hist =>
          LET h == hist'[Len(hist')]
          IN IF ReachesFilter(h.out)
             THEN /\ Len(msgs') = Len(msgs) + 1
                  /\ SubSeq(msgs', 1, Len(msgs)) = msgs
                  /\ msgs'[Len(msgs')].origin = Len(hist')
                  /\ msgs'[Len(msgs')].retries = 0
                  /\ msgs'[Len(msgs')].requests = 1
                  /\ msgs'[Len(msgs')].phase = "request"
                  /\ msgs'[Len(msgs')].form.source = identifier
             ELSE msgs' = msgs]_vars

\* A line sent, a line not sent because its address is short, and a line not
\* sent because its message is the empty string.
C5_SentAndDropped ==
    /\ \E k \in DOMAIN hist : hist[k].out.sent /\ ReachesFilter(hist[k].out)
    /\ \E k \in DOMAIN hist :
           /\ ~hist[k].out.sent
           /\ ~hist[k].out.returned
           /\ \/ Len(hist[k].out.address) > 2 /\ hist[k].out.message = <<>>
              \/ Len(hist[k].out.address) = 2 /\ hist[k].out.message # JsFalse

\* The line matches none of the three patterns.
Unrecognized(l) == ~Patterns[l].pocsag /\ ~Patterns[l].flex /\ ~Patterns[l].eas

\* C6: a line that matches none of the POCSAG, FLEX and EAS patterns is not
\* handed to sendPage and leaves frag as it was, whatever was read before it.
C6_Unrecognized ==
    \A k \in DOMAIN hist :
        Unrecognized(hist[k].line) =>
            /\ ~hist[k].out.sent
            /\ hist[k].out.frag = hist[k].fragBefore
            /\ \A i \in DOMAIN msgs : msgs[i].origin # k

\* An unrecognized line read while frag holds a fragment.
C6_AfterFragment ==
    \E k \in DOMAIN hist : Unrecognized(hist[k].line) /\ hist[k].fragBefore # <<>>

\* C7: with useTimestamp configured false, a record sent for a POCSAG or FLEX
\* line has the time the line was handled as its datetime.
C7_TimestampOff ==
    \A k \in DOMAIN hist :
        (/\ ~cfg.useTimestamp
         /\ hist[k].out.sent
         /\ hist[k].out.branch \in {"POCSAG", "FLEX"})
        => hist[k].out.form.datetime = hist[k].now

\* The branch of the first pattern the line matches, in the order POCSAG,
\* FLEX, EAS.
FirstFamily(l) ==
    IF Patterns[l].pocsag THEN "POCSAG"
    ELSE IF Patterns[l].flex THEN "FLEX"
    ELSE IF Patterns[l].eas THEN "EAS"
    ELSE "UNKNOWN"

\* C8: every line is handled by the branch of the first pattern it matches in
\* the order POCSAG, FLEX, EAS, else as unknown. A line that matches the
\* POCSAG pattern neither reads nor changes frag and does not call
\* SAME.decode, dropped or not; a line handled as FLEX does not call
\* SAME.decode; SAME.decode is called in the EAS branch only.
C8_Precedence ==
    \A k \in DOMAIN hist :
        LET h == hist[k]
        IN /\ h.out.branch = FirstFamily(h.line)
           /\ Patterns[h.line].pocsag =>
                  /\ h.out.fragUse = "none"
                  /\ h.out.frag = h.fragBefore
                  /\ ~h.out.same
           /\ h.out.same <=> FirstFamily(h.line) = "EAS"

\* A line that matches all three patterns, dropped by the POCSAG branch for
\* its address while frag holds a fragment.
C8_AllThree ==
    \E k \in DOMAIN hist :
        /\ Patterns[hist[k].line].pocsag
        /\ Patterns[hist[k].line].flex
        /\ Patterns[hist[k].line].eas
        /\ hist[k].out.returned
        /\ hist[k].fragBefore # <<>>

-----------------------------------------------------------------------------
(* Properties of error handling *)

\* Handling line k failed: it returned early, it threw, or it ended with no
\* message (a payload or a decoder result absent) without having used frag.
Failed(k) ==
    \/ hist[k].out.returned
    \/ hist[k].out.threw
    \/ /\ hist[k].out.branch \in {"POCSAG", "FLEX", "EAS"}
       /\ hist[k].out.message \in {JsFalse, Undefined}
       /\ hist[k].out.fragUse = "none"

\* C11: a line whose handling fails is not handed to sendPage and leaves
\* frag as it was, so the line after it is handled as it would have been
\* without it; and the handler still takes the next line.
C11_FailureConfined ==
    /\ \A k \in DOMAIN hist :
           Failed(k) =>
               /\ ~hist[k].out.sent
               /\ \A i \in DOMAIN msgs : msgs[i].origin # k
               /\ hist[k].out.frag = hist[k].fragBefore
               /\ k < Len(hist) =>
                      /\ hist[k + 1].fragBefore = hist[k].fragBefore
                      /\ \E d \in Decoded(hist[k + 1].line) :
                             hist[k + 1].out =
                                 HandleLine(hist[k + 1].line, cfg, hist[k].fragBefore,
                                            hist[k + 1].now, d)
    /\ ((\E k \in DOMAIN hist : Failed(k)) /\ Len(hist) < MaxLines)
           => ENABLED Read(LineIds, MaxLines)

\* A line that threw (an EAS result without an organization code), and the
\* line after it sent.
C11_ThrewThenSent ==
    /\ Len(hist) = 2
    /\ hist[1].out.threw
    /\ hist[2].out.sent

\* C12: an EAS line for which SAME.decode returns nothing (null, or an
\* object with no field) is not handed to sendPage and leaves frag as it was.
C12_EasNoResult ==
    [][hist' # hist =>
          LET h == hist'[Len(hist')]
          IN (/\ Scans[h.line, cfg].branch = "EAS"
              /\ \E d \in {SameNone, SameEmpty} :
                     h.out = HandleLine(h.line, cfg, frag, h.now, d))
             => /\ ~h.out.sent
                /\ msgs' = msgs
                /\ frag' = frag]_vars

\* An EAS line with an empty result whose address is built from the absent
\* fields ("undefined-undefined"), read while frag holds a fragment.
C12_EmptyResult ==
    \E k \in DOMAIN hist :
        /\ hist[k].out.branch = "EAS"
        /\ hist[k].out.message = Undefined
        /\ Len(hist[k].out.address) > 2
        /\ hist[k].fragBefore # <<>>

-----------------------------------------------------------------------------
(* Properties of the address *)

\* C13: the address of every form handed to sendPage is the decoded address
\* with '0' characters added on its left up to 7 characters: exactly 7 when
\* the decoded address has at most 7, the decoded address itself when it has
\* more (a 7-digit address with its function code, an EAS address with its
\* type).
C13_ZeroPadded ==
    \A k \in DOMAIN hist :
        hist[k].out.sent =>
            LET address == hist[k].out.address
                padAddress == hist[k].out.form.address
                zeros == Len(padAddress) - Len(address)
            IN /\ Len(padAddress) = IF Len(address) > 7 THEN Len(address) ELSE 7
               /\ SubSeq(padAddress, zeros + 1, Len(padAddress)) = address
               /\ \A i \in 1..zeros : padAddress[i] = "0"

\* C13 as stated: the address handed to sendPage always has exactly 7
\* characters.
C13_AlwaysSeven ==
    \A i \in DOMAIN msgs : Len(msgs[i].form.address) = 7

\* Address "123" sent as "0000123", and an address of more than 7 characters
\* (an EAS address with its type) sent as it is.
C13_PaddedAndLong ==
    /\ \E k \in DOMAIN hist :
           /\ hist[k].out.sent
           /\ hist[k].out.address = <<"1", "2", "3">>
           /\ hist[k].out.form.address = <<"0", "0", "0", "0", "1", "2", "3">>
    /\ \E k \in DOMAIN hist : hist[k].out.sent /\ Len(hist[k].out.form.address) > 7

\* What the handler takes from line l with sendFunctionCode as given.
ScanWith(l, code) == Scans[l, [cfg EXCEPT !.sendFunctionCode = code]]

\* C14: for a POCSAG line with an address, the decoded address is the
\* captured address without surrounding white space when sendFunctionCode is
\* false, and that address with the one function digit appended when it is
\* true, or the bare address when no function digit is found; the message is
\* the same either way. The line "POCSAG512: Address: 1234567  Function: 3
\* Alpha: TEST MESSAGE" gives address "1234567" ("12345673" with the function
\* code), message "TEST MESSAGE" and source = identifier; a line without a
\* function digit is still sent, under its bare address.
C14_FunctionCode ==
    \A k \in DOMAIN hist :
        LET l == hist[k].line
            out == hist[k].out
            bare == ScanWith(l, FALSE).address
            coded == ScanWith(l, TRUE).address
        IN (out.branch = "POCSAG" /\ ~out.returned) =>
               /\ bare = Trim(bare)
               /\ coded = bare \/ \E d \in Digit : coded = bare \o <<d>>
               /\ ScanWith(l, TRUE).message = ScanWith(l, FALSE).message
               /\ out.address = IF cfg.sendFunctionCode THEN coded ELSE bare
               /\ l = IdOf(P_ALPHA) =>
                      /\ bare = <<"1", "2", "3", "4", "5", "6", "7">>
                      /\ coded = <<"1", "2", "3", "4", "5", "6", "7", "3">>
                      /\ out.sent
                      /\ out.form.address = out.address
                      /\ out.form.message =
                             <<"T", "E", "S", "T", " ", "M", "E", "S", "S", "A", "G", "E">>
                      /\ out.form.source = identifier
               /\ l = IdOf(P_NOFUNC) =>
                      /\ coded = <<"1", "2", "3", "4", "5", "6", "7">>
                      /\ out.sent
                      /\ out.form.address = coded

\* With sendFunctionCode true: the example line sent under "12345673", and a
\* line without a function digit sent under its bare address.
C14_CodedAndBare ==
    /\ cfg.sendFunctionCode
    /\ \E k \in DOMAIN hist :
           /\ hist[k].line = IdOf(P_ALPHA)
           /\ hist[k].out.form.address = <<"1", "2", "3", "4", "5", "6", "7", "3">>
    /\ \E k \in DOMAIN hist : hist[k].line = IdOf(P_NOFUNC) /\ hist[k].out.sent

-----------------------------------------------------------------------------
(* Lines and deliveries interleaved: FLEX fragment and completion frames    *)
(* under the default configuration, with a collector that may fail any      *)
(* request.                                                                 *)

MixLineIds == {IdOf(line) : line \in {F_A_F_HELLO, F_A_C_WORLD}}

NextMix ==
    \/ Read(MixLineIds, MaxRetryLines)
    \/ Succeed
    \/ FailAny
    \/ Fire

SpecMix == InitDefault /\ [][NextMix]_vars

\* What handling the first n lines of the history gives when nothing but
\* the lines happens: frag after them, and the forms sent for them in order.
RECURSIVE LinesAlone(_)
LinesAlone(n) ==
    IF n = 0 THEN [frag |-> <<>>, forms |-> <<>>]
    ELSE LET before == LinesAlone(n - 1)
             out == HandleLine(hist[n].line, cfg, before.frag, hist[n].now, SameNone)
         IN [frag |-> out.frag,
             forms |-> IF out.sent THEN Append(before.forms, out.form)
                       ELSE before.forms]

\* C15: handling lines and delivering messages do not interfere. A line can
\* be read whatever requests are outstanding and whatever timers are
\* pending; no step of a delivery (a request succeeding or failing, a timer
\* firing, a message abandoned) changes frag; and frag and the forms handed
\* to sendPage, in order, are those the lines alone give.
C15_NoInterference ==
    /\ [](Len(hist) < MaxRetryLines => ENABLED Read(MixLineIds, MaxRetryLines))
    /\ [][hist' = hist => frag' = frag]_vars
    /\ [](/\ frag = LinesAlone(Len(hist)).frag
          /\ [i \in DOMAIN msgs |-> msgs[i].form] = LinesAlone(Len(hist)).forms)

\* A fragment stored by the second line while the message of the first line
\* waits for its second retry.
C15_StoredWhileRetrying ==
    /\ Len(hist) = 2
    /\ frag # <<>>
    /\ Len(msgs) = 1
    /\ msgs[1].phase = "timer"
    /\ msgs[1].retries = 2

-----------------------------------------------------------------------------
(* Properties of FLEX completion and fragment frames *)

\* C16: a C frame (content marker, extracted payload) for an address longer
\* than 2 is handed to sendPage once, with the text stored for the address
\* ('' if none) followed by the frame's text, and the entry of the address is
\* removed; also when nothing was stored, and when the frame's own text is
\* empty after trimming.
C16_Completion ==
    \A k \in DOMAIN hist :
        LET a == ScanOf(k).address
        IN (IsFrame(k, a, "C") /\ Len(a) > 2) =>
               /\ hist[k].out.sent
               /\ Cardinality({i \in DOMAIN msgs : msgs[i].origin = k}) = 1
               /\ hist[k].out.form.message =
                      OrElse(FragGet(hist[k].fragBefore, a), <<>>) \o ScanOf(k).message
               /\ a \notin DOMAIN hist[k].out.frag

\* C17: an F frame is not handed to sendPage and replaces the text stored
\* for its address: after frames F(t1), F(t2), C(t3) for one address, with
\* no other F or C frame for it between them, exactly one message is sent,
\* for the C frame, and its text is t2 followed by t3.
C17_Overwrite ==
    \A i, j, k \in DOMAIN hist :
        LET a == ScanOf(k).address
        IN (/\ i < j /\ j < k
            /\ IsFrame(i, a, "F") /\ IsFrame(j, a, "F") /\ IsFrame(k, a, "C")
            /\ \A n \in (i + 1)..(k - 1) : n # j => ~Affects(n, a))
           => /\ ~hist[i].out.sent
              /\ ~hist[j].out.sent
              /\ hist[k].out.sent
              /\ hist[k].out.form.message = ScanOf(j).message \o ScanOf(k).message

-----------------------------------------------------------------------------
(* Properties of one message's delivery *)

\* C18: every message handed to sendPage has at any moment at most one
\* request outstanding or one retry timer pending, never both and never two
\* of either; its retry count is in 0..10 and never decreases; and at most 11
\* requests are made for it.
C18_OneChain ==
    /\ [](\A i \in DOMAIN msgs :
              /\ msgs[i].inflight \in 0..1
              /\ msgs[i].timers \in 0..1
              /\ msgs[i].inflight + msgs[i].timers <= 1
              /\ msgs[i].retries \in 0..10
              /\ msgs[i].requests <= 11)
    /\ [][\A i \in DOMAIN msgs : msgs'[i].retries >= msgs[i].retries]_vars

\* The 10th retry of a message outstanding: its 11th request, no timer.
C18_LastRetry ==
    \E i \in DOMAIN msgs :
        /\ msgs[i].retries = 10
        /\ msgs[i].requests = 11
        /\ msgs[i].inflight = 1
        /\ msgs[i].timers = 0

====
